---- MODULE Spec2Model ----
(***************************************************************************)
(* Model of the digest engines of smhash.py (BlockHash, 64-bit words) and  *)
(* sha256.py (SHA256, 32-bit words) and of the nonce searches built on     *)
(* them (miner.py, smhash.mine_block, smhash.verify_block).                *)
(*                                                                         *)
(* A Python int is modelled as the set of the positions of its 1 bits      *)
(* (position 0 is the least significant bit), so that values wider than a  *)
(* machine word exist and the masks of the source are real operations.     *)
(* A byte is an integer in 0..255, a bytes object a sequence of bytes, and *)
(* a str a sequence of one-character strings.  A Python list index i is    *)
(* the sequence index i + 1.                                               *)
(***************************************************************************)
EXTENDS Integers, Sequences, FiniteSets, TLC

----------------------------------------------------------------------------
(* Python statements and loops *)

\* v = <expression>; <rest>: F applied to the value of v.  The value is
\* computed once, before F is entered, as a Python assignment computes it.
Bind(v, F(_)) == CHOOSE r \in {F(a) : a \in {v}} : TRUE

\* for i in range(lo, hi): v = Body(v, i)
\* The range is split in halves, the first half run before the second.
RECURSIVE For(_, _, _, _)
For(Body(_, _), v, lo, hi) ==
    IF hi <= lo THEN v
    ELSE IF hi = lo + 1 THEN Body(v, lo)
    ELSE Bind(For(Body, v, lo, (lo + hi) \div 2),
              LAMBDA v1 : For(Body, v1, (lo + hi) \div 2, hi))

\* while Cond(v): v = Body(v), cut off after 2^(k+1) - 1 passes.  A loop
\* the cut-off stopped early is left with Cond still true of its result.
RECURSIVE While(_, _, _, _)
While(Cond(_), Body(_), v, k) ==
    IF ~Cond(v) THEN v
    ELSE Bind(Body(v), LAMBDA v0 :
            IF k = 0 THEN v0
            ELSE Bind(While(Cond, Body, v0, k - 1),
                      LAMBDA v1 : While(Cond, Body, v1, k - 1)))

----------------------------------------------------------------------------
(* Python integer operators on bit sets *)

\* x ^ y
Xor(x, y) == UNION {{i : i \in (a \ b) \cup (b \ a)} : a \in {x}, b \in {y}}

\* x & y
And(x, y) == {i : i \in x \cap y}

\* x | y
Or(x, y) == {i : i \in x \cup y}

\* x >> n
Shr(x, n) == {i - n : i \in {j \in x : j >= n}}

\* x << n
Shl(x, n) == {i + n : i \in x}

\* ~x & z: ~x has every bit set that x has not
AndNot(x, z) == {i \in z : i \notin x}

\* the literal 0xFFFFFFFFFFFFFFFF
MASK64 == 0..63

\* the literal 0xFFFFFFFF
MASK32 == 0..31

\* the bits of the byte b, moved to the bit positions at..at+7
ByteBits(b, at) == {at + k : k \in {j \in 0..7 : (b \div (2^j)) % 2 = 1}}

\* the byte at the bit positions at..at+7 of x
BitsByte(x, at) ==
    LET bit(k) == IF (at + k) \in x THEN 2^k ELSE 0
    IN bit(0) + bit(1) + bit(2) + bit(3) + bit(4) + bit(5) + bit(6) + bit(7)

\* int.from_bytes(bs, 'big'), for up to 8 bytes
FromBytesBig(bs) ==
    Bind(bs, LAMBDA b :
        {i \in 0..(8 * Len(b) - 1) :
            (b[Len(b) - (i \div 8)] \div (2^(i % 8))) % 2 = 1})

\* x.to_bytes(n, 'big'), for x < 2^(8n)
ToBytesBig(x, n) == [m \in 1..n |-> BitsByte(x, 8 * (n - m))]

\* a small non-negative number as a Python int
PyInt(n) == {i \in 0..30 : (n \div (2^i)) % 2 = 1}

\* Bound of the carry loop of Add: it passes at most once per bit position
\* of the sum, and 2^(AddFuel + 1) - 1 = 127 passes cover 64-bit operands.
AddFuel == 6

\* x + y: the carries are added in until none is left
Add(x, y) ==
    Bind(<<x, y>>, LAMBDA xy :
        While(LAMBDA p : p[2] # {},
              LAMBDA p : <<Xor(p[1], p[2]), Shl(And(p[1], p[2]), 1)>>,
              xy, AddFuel)[1])

----------------------------------------------------------------------------
(* Strings *)

HexChars == <<"0", "1", "2", "3", "4", "5", "6", "7",
              "8", "9", "a", "b", "c", "d", "e", "f">>

\* bytes.hex() with no zero padding of a byte below 16
BytesHex_nopad(bs) ==
    Bind(bs, LAMBDA b :
        For(LAMBDA s, i : IF b[i + 1] < 16
                          THEN Append(s, HexChars[b[i + 1] + 1])
                          ELSE Append(Append(s, HexChars[(b[i + 1] \div 16) + 1]),
                                      HexChars[(b[i + 1] % 16) + 1]),
            <<>>, 0, Len(b)))

\* bytes.hex()
BytesHex(bs) ==
    Bind(bs, LAMBDA b :
        [i \in 1..(2 * Len(b)) |->
            IF i % 2 = 1 THEN HexChars[(b[(i + 1) \div 2] \div 16) + 1]
                         ELSE HexChars[(b[i \div 2] % 16) + 1]])

\* str(n).encode('utf-8') for n >= 0: the ASCII codes of the decimal digits
RECURSIVE DecimalText(_)
DecimalText(n) ==
    IF n < 10 THEN <<48 + n>>
    ELSE Append(DecimalText(n \div 10), 48 + (n % 10))

\* '0' * n: the empty string for n <= 0
ZeroChars(n) == [i \in 1..n |-> "0"]

\* the prefix sought at the end of s
StartsWith_suffix(s, prefix) ==
    /\ Len(prefix) <= Len(s)
    /\ SubSeq(s, Len(s) - Len(prefix) + 1, Len(s)) = prefix

\* s.startswith(prefix)
StartsWith(s, prefix) ==
    /\ Len(prefix) <= Len(s)
    /\ SubSeq(s, 1, Len(prefix)) = prefix

----------------------------------------------------------------------------
(* smhash.py: class BlockHash *)

\* MiningMode
FAST == 1
STANDARD == 2
SECURE == 3
MiningMode == {FAST, STANDARD, SECURE}

\* a 64-bit literal written as its four 16-bit groups, most significant first
Lit64(a, b, c, d) ==
    FromBytesBig(<<a \div 256, a % 256, b \div 256, b % 256,
                   c \div 256, c % 256, d \div 256, d % 256>>)

\* BlockHash.MINING_CONSTANTS
MINING_CONSTANTS ==
    << Lit64(27145, 58983, 62396, 51464),   \* 0x6a09e667f3bcc908
       Lit64(47975, 44677, 33994, 42811),   \* 0xbb67ae8584caa73b
       Lit64(15470, 62322, 65172, 63531),   \* 0x3c6ef372fe94f82b
       Lit64(42319, 62778, 24349, 14065) >> \* 0xa54ff53a5f1d36f1

\* _rotright without its mask
rotright_nomask(value, shift) == Or(Shr(value, shift), Shl(value, 64 - shift))

\* BlockHash._rotright
rotright(value, shift) ==
    And(Or(Shr(value, shift), Shl(value, 64 - shift)), MASK64)

\* BlockHash._rotleft
rotleft(value, shift) ==
    And(Or(Shl(value, shift), Shr(value, 64 - shift)), MASK64)

\* BlockHash._get_round_count
get_round_count(mode) ==
    CASE mode = FAST -> 2
      [] mode = STANDARD -> 3
      [] mode = SECURE -> 4

\* BlockHash._mix_mining: the pair <<x, y>> it returns
mix_mining(x, y) ==
    Bind(Xor(rotright(x, 13), y), LAMBDA x1 :
    Bind(Xor(rotleft(y, 17), x1), LAMBDA y1 :
    Bind(Xor(rotright(x1, 21), y1), LAMBDA x2 :
    Bind(Xor(rotleft(y1, 29), x2), LAMBDA y2 :
    <<x2, y2>>))))

\* one pass of the "for _ in range(rounds)" loop of _process_mining_block
MixRound(st) ==
    Bind(mix_mining(st[1], st[2]), LAMBDA p01 :
    Bind(mix_mining(st[3], st[4]), LAMBDA p23 :
    Bind(mix_mining(p01[1], p23[1]), LAMBDA c02 :
    Bind(mix_mining(p01[2], p23[2]), LAMBDA c13 :
    <<c02[1], c13[1], c02[2], c13[2]>>))))

\* struct.unpack('>QQQQQQQQ', block): eight big-endian 64-bit values
Unpack8Q(block) ==
    << FromBytesBig(SubSeq(block, 1, 8)),   FromBytesBig(SubSeq(block, 9, 16)),
       FromBytesBig(SubSeq(block, 17, 24)), FromBytesBig(SubSeq(block, 25, 32)),
       FromBytesBig(SubSeq(block, 33, 40)), FromBytesBig(SubSeq(block, 41, 48)),
       FromBytesBig(SubSeq(block, 49, 56)), FromBytesBig(SubSeq(block, 57, 64)) >>

\* _process_mining_block with only the first four words of the block mixed in
process_mining_block_low(st, block, mode) ==
    Bind(Unpack8Q(block), LAMBDA values :
    Bind(<< Xor(st[1], values[1]),
            Xor(st[2], values[2]),
            Xor(st[3], values[3]),
            Xor(st[4], values[4]) >>, LAMBDA mixed :
    Bind(get_round_count(mode), LAMBDA rounds :
    For(LAMBDA s, r : MixRound(s), mixed, 0, rounds))))

\* BlockHash._process_mining_block: self.state after one 64-byte block
process_mining_block(st, block, mode) ==
    Bind(Unpack8Q(block), LAMBDA values :
    Bind(<< Xor(st[1], Xor(values[1], values[5])),
            Xor(st[2], Xor(values[2], values[6])),
            Xor(st[3], Xor(values[3], values[7])),
            Xor(st[4], Xor(values[4], values[8])) >>, LAMBDA mixed :
    Bind(get_round_count(mode), LAMBDA rounds :
    For(LAMBDA s, r : MixRound(s), mixed, 0, rounds))))

\* b'\x00' * n
Zeros(n) == [i \in 1..n |-> 0]

\* _finalize_mining with the zero-padded block processed also when the
\* buffer is empty
finalize_mining_always(eng, mode) ==
    Bind(Bind(eng.buffer \o Zeros(64 - Len(eng.buffer)), LAMBDA padded :
              process_mining_block(eng.state, padded, mode)), LAMBDA st1 :
    Bind(mix_mining(st1[1], st1[3]), LAMBDA c02 :
    Bind(mix_mining(st1[2], st1[4]), LAMBDA c13 :
    [state |-> <<c02[1], c13[1], c02[2], c13[2]>>, buffer |-> eng.buffer])))

\* _finalize_mining with the byte 0x80 put before the zero padding
finalize_mining_marked(eng, mode) ==
    Bind(IF Len(eng.buffer) > 0
         THEN Bind(eng.buffer \o <<128>> \o Zeros(63 - Len(eng.buffer)), LAMBDA padded :
                   process_mining_block(eng.state, padded, mode))
         ELSE eng.state, LAMBDA st1 :
    Bind(mix_mining(st1[1], st1[3]), LAMBDA c02 :
    Bind(mix_mining(st1[2], st1[4]), LAMBDA c13 :
    [state |-> <<c02[1], c13[1], c02[2], c13[2]>>, buffer |-> eng.buffer])))

\* BlockHash._finalize_mining: the engine it leaves (padded is a new
\* object, self.buffer stays as it is)
finalize_mining(eng, mode) ==
    Bind(IF Len(eng.buffer) > 0
         THEN Bind(eng.buffer \o Zeros(64 - Len(eng.buffer)), LAMBDA padded :
                   process_mining_block(eng.state, padded, mode))
         ELSE eng.state, LAMBDA st1 :
    Bind(mix_mining(st1[1], st1[3]), LAMBDA c02 :
    Bind(mix_mining(st1[2], st1[4]), LAMBDA c13 :
    [state |-> <<c02[1], c13[1], c02[2], c13[2]>>, buffer |-> eng.buffer])))

\* Bound of the block loop of update: 2^(DrainFuel + 1) - 1 = 7 blocks, more
\* than any buffer of the model holds.
DrainFuel == 2

\* update() that keeps a buffer of exactly 64 bytes
update_gt(eng, data, mode) ==
    Bind([state |-> eng.state, buffer |-> eng.buffer \o data], LAMBDA extended :
    While(LAMBDA e : Len(e.buffer) > 64,
          LAMBDA e : Bind(SubSeq(e.buffer, 1, 64), LAMBDA block :
                       [state |-> process_mining_block(e.state, block, mode),
                        buffer |-> SubSeq(e.buffer, 65, Len(e.buffer))]),
          extended, DrainFuel))

\* update() that processes at most one block per call
update_once(eng, data, mode) ==
    Bind([state |-> eng.state, buffer |-> eng.buffer \o data], LAMBDA extended :
    IF Len(extended.buffer) >= 64
    THEN Bind(SubSeq(extended.buffer, 1, 64), LAMBDA block :
            [state |-> process_mining_block(extended.state, block, mode),
             buffer |-> SubSeq(extended.buffer, 65, Len(extended.buffer))])
    ELSE extended)

\* BlockHash.update on the engine eng = [state, buffer] of the given mode:
\* the engine it leaves
update(eng, data, mode) ==
    Bind([state |-> eng.state, buffer |-> eng.buffer \o data], LAMBDA extended :
    While(LAMBDA e : Len(e.buffer) >= 64,
          LAMBDA e : Bind(SubSeq(e.buffer, 1, 64), LAMBDA block :
                       [state |-> process_mining_block(e.state, block, mode),
                        buffer |-> SubSeq(e.buffer, 65, Len(e.buffer))]),
          extended, DrainFuel))

\* b''.join(x.to_bytes(8, 'big') for x in self.state)
JoinState(st) ==
    ToBytesBig(st[1], 8) \o ToBytesBig(st[2], 8) \o
    ToBytesBig(st[3], 8) \o ToBytesBig(st[4], 8)

\* digest() with the state not restored after the finalization
digest_norestore(eng, mode) ==
    Bind(eng.buffer, LAMBDA orig_buffer :
    Bind(finalize_mining(eng, mode), LAMBDA finalized :
    Bind(JoinState(finalized.state), LAMBDA result :
    [state |-> finalized.state, buffer |-> orig_buffer, result |-> result])))

\* digest() with the buffer emptied instead of restored
digest_dropbuffer(eng, mode) ==
    Bind(eng.state, LAMBDA orig_state :
    Bind(finalize_mining(eng, mode), LAMBDA finalized :
    Bind(JoinState(finalized.state), LAMBDA result :
    [state |-> orig_state, buffer |-> <<>>, result |-> result])))

\* BlockHash.digest: the engine it leaves and the bytes it returns
digest(eng, mode) ==
    Bind(eng.state, LAMBDA orig_state :
    Bind(eng.buffer, LAMBDA orig_buffer :
    Bind(finalize_mining(eng, mode), LAMBDA finalized :
    Bind(JoinState(finalized.state), LAMBDA result :
    [state |-> orig_state, buffer |-> orig_buffer, result |-> result]))))

\* BlockHash.hexdigest: the engine it leaves and the str it returns
hexdigest(eng, mode) ==
    Bind(digest(eng, mode), LAMBDA d :
    [state |-> d.state, buffer |-> d.buffer, result |-> BytesHex(d.result)])

\* self.state = self.MINING_CONSTANTS, without the copy
reset_state_nocopy(tbl) == [value |-> tbl, alias |-> TRUE]

\* self.state = self.MINING_CONSTANTS.copy(), where the class attribute
\* holds tbl: the items of the list self.state names afterwards, and
\* whether that list is the class attribute's own list
reset_state(tbl) == [value |-> tbl, alias |-> FALSE]

\* BlockHash.reset, and so BlockHash.__init__: the engine it leaves
reset == [state |-> MINING_CONSTANTS, buffer |-> <<>>]

\* BlockHash._fast_nonce_mix: the list it returns (and leaves in its argument)
fast_nonce_mix(st, nonce) ==
    Bind(Xor(st[1], nonce), LAMBDA s0 :
    Bind(Xor(st[2], rotright(nonce, 32)), LAMBDA s1 :
    Bind(mix_mining(s0, s1), LAMBDA p01 :
    Bind(mix_mining(st[3], st[4]), LAMBDA p23 :
    <<p01[1], p01[2], p23[1], p23[2]>>))))

\* BlockHash.hash_with_nonce
hash_with_nonce(data, nonce, mode) ==
    Bind(update(reset, data, mode), LAMBDA hasher :
    Bind(fast_nonce_mix(hasher.state, nonce), LAMBDA mixed :
    Bind([state |-> mixed, buffer |-> hasher.buffer], LAMBDA mixedHasher :
    hexdigest(mixedHasher, mode).result)))

\* smhash.hash_bytes, and smhash.hash_string on the encoded text
smhash_hash_bytes(data, mode) ==
    Bind(update(reset, data, mode), LAMBDA hasher :
    hexdigest(hasher, mode).result)

----------------------------------------------------------------------------
(* sha256.py: class SHA256 *)

\* a 32-bit literal written as its two 16-bit halves, most significant first
Lit32(a, b) == FromBytesBig(<<a \div 256, a % 256, b \div 256, b % 256>>)

\* SHA256.__init__: self.h, the words 0x6a09e667 ... 0x5be0cd19
SHA_H0 ==
    << Lit32(27145, 58983), Lit32(47975, 44677), Lit32(15470, 62322), Lit32(42319, 62778),
       Lit32(20750, 21119), Lit32(39685, 26764), Lit32(8067, 55723), Lit32(23520, 52505) >>

\* SHA256.__init__: self.k, the words 0x428a2f98 ... 0xc67178f2
SHA_K ==
    << Lit32(17034, 12184), Lit32(28983, 17553), Lit32(46528, 64463), Lit32(59829, 56229),
       Lit32(14678, 49755), Lit32(23025, 4593), Lit32(37439, 33444), Lit32(43804, 24277),
       Lit32(55303, 43672), Lit32(4739, 23297), Lit32(9265, 34238), Lit32(21772, 32195),
       Lit32(29374, 23924), Lit32(32990, 45566), Lit32(39900, 1703), Lit32(49563, 61812),
       Lit32(58523, 27073), Lit32(61374, 18310), Lit32(4033, 40390), Lit32(9228, 41420),
       Lit32(11753, 11375), Lit32(19060, 33962), Lit32(23728, 43484), Lit32(30457, 35034),
       Lit32(38974, 20818), Lit32(43057, 50797), Lit32(45059, 10184), Lit32(48985, 32711),
       Lit32(50912, 3059), Lit32(54695, 37191), Lit32(1738, 25425), Lit32(5161, 10599),
       Lit32(10167, 2693), Lit32(11803, 8504), Lit32(19756, 28156), Lit32(21304, 3347),
       Lit32(25866, 29524), Lit32(30314, 2747), Lit32(33218, 51502), Lit32(37490, 11397),
       Lit32(41663, 59553), Lit32(43034, 26187), Lit32(49739, 35696), Lit32(51052, 20899),
       Lit32(53650, 59417), Lit32(54937, 1572), Lit32(62478, 13701), Lit32(4202, 41072),
       Lit32(6564, 49430), Lit32(7735, 27656), Lit32(10056, 30540), Lit32(13488, 48309),
       Lit32(14620, 3251), Lit32(20184, 43594), Lit32(23452, 51791), Lit32(26670, 28659),
       Lit32(29839, 33518), Lit32(30885, 25455), Lit32(33992, 30740), Lit32(36039, 520),
       Lit32(37054, 65530), Lit32(42064, 27883), Lit32(48889, 41975), Lit32(50801, 30962) >>

\* SHA256._right_rotate
right_rotate(x, n) == And(Or(Shr(x, n), Shl(x, 32 - n)), MASK32)

\* SHA256._sha256_functions
sha256_functions(x, y, z, operation) ==
    IF operation = "Ch"
    THEN Xor(And(x, y), AndNot(x, z))
    ELSE Xor(Xor(And(x, y), And(x, z)), And(y, z))

\* _sigma with the shift of small_0 taken as one more rotation
sigma_rot3(x, operation) ==
    CASE operation = "big_0" ->
            Xor(Xor(right_rotate(x, 2), right_rotate(x, 13)), right_rotate(x, 22))
      [] operation = "big_1" ->
            Xor(Xor(right_rotate(x, 6), right_rotate(x, 11)), right_rotate(x, 25))
      [] operation = "small_0" ->
            Xor(Xor(right_rotate(x, 7), right_rotate(x, 18)), right_rotate(x, 3))
      [] OTHER ->
            Xor(Xor(right_rotate(x, 17), right_rotate(x, 19)), Shr(x, 10))

\* SHA256._sigma
sigma(x, operation) ==
    CASE operation = "big_0" ->
            Xor(Xor(right_rotate(x, 2), right_rotate(x, 13)), right_rotate(x, 22))
      [] operation = "big_1" ->
            Xor(Xor(right_rotate(x, 6), right_rotate(x, 11)), right_rotate(x, 25))
      [] operation = "small_0" ->
            Xor(Xor(right_rotate(x, 7), right_rotate(x, 18)), Shr(x, 3))
      [] OTHER ->
            Xor(Xor(right_rotate(x, 17), right_rotate(x, 19)), Shr(x, 10))

\* Bound of the zero-fill loop of _pad_message: 2^(PadFuel + 1) - 1 = 127
\* passes, where a block has 64 bytes.
PadFuel == 6

\* _pad_message with the length appended in bytes instead of bits
pad_message_bytes(message) ==
    Bind(PyInt(Len(message)), LAMBDA message_len :
    Bind(Append(message, 128), LAMBDA marked :
    Bind(While(LAMBDA m : (Len(m) * 8 + 64) % 512 # 0,
               LAMBDA m : Append(m, 0),
               marked, PadFuel), LAMBDA filled :
    filled \o ToBytesBig(message_len, 8))))

\* SHA256._pad_message
pad_message(message) ==
    Bind(PyInt(Len(message) * 8), LAMBDA message_len :
    Bind(Append(message, 128), LAMBDA marked :
    Bind(While(LAMBDA m : (Len(m) * 8 + 64) % 512 # 0,
               LAMBDA m : Append(m, 0),
               marked, PadFuel), LAMBDA filled :
    filled \o ToBytesBig(message_len, 8))))

\* one pass of the "for i in range(16, 64)" loop of _process_block on w[0..i-1]
ScheduleStep(w, i) ==
    Bind(sigma(w[i - 15 + 1], "small_0"), LAMBDA s0 :
    Bind(sigma(w[i - 2 + 1], "small_1"), LAMBDA s1 :
    Append(w, And(Add(Add(Add(w[i - 16 + 1], s0), w[i - 7 + 1]), s1), MASK32))))

\* one pass of the main loop of _process_block on <<a, b, c, d, e, f, g, h>>
Round(v, k, w, i) ==
    LET a == v[1]  b == v[2]  c == v[3]  d == v[4]
        e == v[5]  f == v[6]  g == v[7]  h == v[8]
    IN
    Bind(sigma(e, "big_1"), LAMBDA S1 :
    Bind(sha256_functions(e, f, g, "Ch"), LAMBDA ch :
    Bind(And(Add(Add(Add(Add(h, S1), ch), k[i + 1]), w[i + 1]), MASK32), LAMBDA temp1 :
    Bind(sigma(a, "big_0"), LAMBDA S0 :
    Bind(sha256_functions(a, b, c, "Maj"), LAMBDA maj :
    Bind(And(Add(S0, maj), MASK32), LAMBDA temp2 :
    << And(Add(temp1, temp2), MASK32), a, b, c,
       And(Add(d, temp1), MASK32), e, f, g >>))))))

\* SHA256._process_block: the new self.h
process_block(h, k, block) ==
    Bind(For(LAMBDA w, i : Append(w, FromBytesBig(SubSeq(block, 4 * i + 1, 4 * i + 4))),
             <<>>, 0, 16), LAMBDA w16 :
    Bind(For(ScheduleStep, w16, 16, 64), LAMBDA w :
    Bind(For(LAMBDA x, i : Round(x, k, w, i), h, 0, 64), LAMBDA v :
    << And(Add(h[1], v[1]), MASK32), And(Add(h[2], v[2]), MASK32),
       And(Add(h[3], v[3]), MASK32), And(Add(h[4], v[4]), MASK32),
       And(Add(h[5], v[5]), MASK32), And(Add(h[6], v[6]), MASK32),
       And(Add(h[7], v[7]), MASK32), And(Add(h[8], v[8]), MASK32) >>)))

\* the highest bit position of x, -1 for 0
TopBit(x) == IF x = {} THEN -1 ELSE CHOOSE i \in x : \A j \in x : j <= i

\* the value of the four bits of x at the positions at..at+3
Nibble(x, at) ==
    (IF at \in x THEN 1 ELSE 0) + (IF (at + 1) \in x THEN 2 ELSE 0) +
    (IF (at + 2) \in x THEN 4 ELSE 0) + (IF (at + 3) \in x THEN 8 ELSE 0)

\* f'{x:08x}': lowercase hexadecimal, zero-padded to at least 8 digits
Format08x(x) ==
    Bind(IF TopBit(x) >= 32 THEN (TopBit(x) \div 4) + 1 ELSE 8, LAMBDA width :
    [i \in 1..width |-> HexChars[Nibble(x, 4 * (width - i)) + 1]])

\* ''.join(f'{x:08x}' for x in self.h)
JoinHex(h) ==
    Format08x(h[1]) \o Format08x(h[2]) \o Format08x(h[3]) \o Format08x(h[4]) \o
    Format08x(h[5]) \o Format08x(h[6]) \o Format08x(h[7]) \o Format08x(h[8])

\* hash() without the self.__init__() call that resets self.h
sha256_hash_noreset(hBefore, message) ==
    Bind(hBefore, LAMBDA h0 :
    Bind(SHA_K, LAMBDA k :
    Bind(pad_message(message), LAMBDA padded :
    Bind(For(LAMBDA x, b : Bind(SubSeq(padded, 64 * b + 1, 64 * b + 64), LAMBDA block :
                                process_block(x, k, block)),
             h0, 0, (Len(padded) + 63) \div 64), LAMBDA h :
    [h |-> h, result |-> JoinHex(h)]))))

\* SHA256.hash on an instance whose self.h is hBefore: the self.h it
\* leaves and the str it returns
sha256_hash(hBefore, message) ==
    Bind(SHA_H0, LAMBDA h0 :
    Bind(SHA_K, LAMBDA k :
    Bind(pad_message(message), LAMBDA padded :
    Bind(For(LAMBDA x, b : Bind(SubSeq(padded, 64 * b + 1, 64 * b + 64), LAMBDA block :
                                process_block(x, k, block)),
             h0, 0, (Len(padded) + 63) \div 64), LAMBDA h :
    [h |-> h, result |-> JoinHex(h)]))))

\* sha256.hash_bytes, and sha256.hash_string on the encoded text: a new
\* SHA256 instance per call
sha256_hash_bytes(byte_data) == sha256_hash(SHA_H0, byte_data).result

----------------------------------------------------------------------------
(* The digest engines as a state machine: one engine is constructed, of *)
(* either class, and its methods are called in any order.               *)

VARIABLES
    kind,        \* the class of the engine: "BlockHash" or "SHA256"
    mode,        \* BlockHash: self.mode (0 for SHA256, which has none)
    state,       \* BlockHash: self.state, 4 words; SHA256: self.h, 8 words
    buffer,      \* BlockHash: self.buffer
    input,       \* history: the bytes given to the engine since it was last
                 \* reset (SHA256.hash resets: the message of the last call)
    ncalls,      \* history: update() calls since the last reset(), or
                 \* hash() calls since construction
    op,          \* history: the last call made
    out,         \* the value the last call returned (<<>> for None)
    prevOut,     \* history: what the call before returned, if both that call
                 \* and the last one were digests (else <<>>); of a module-level
                 \* function called repeatedly, the [data, result] of each call
                 \* before the last
    interleaved  \* history: an update() has followed a digest since the reset

VARIABLES
    miner,       \* the search function called
    base,        \* its text (encoded) or block header
    num_zeros,   \* its num_zeros / target_zeros
    max_nonce,   \* its max_nonce
    nonce,       \* the loop variable
    pc,          \* "loop", "found", "notfound"; "verified" after verify_block
    computed,    \* history: the number of digests the search has computed
    report,      \* what a miner.py search printed at its end
    result,      \* what the search returned ("pending" before it returns)
    verified     \* what verify_block returned ("none" before it is called)

VARIABLES
    table,       \* the items of the list BlockHash.MINING_CONSTANTS names
    alias,       \* self.state and BlockHash.MINING_CONSTANTS name one list
    args,        \* the arguments of a function called on its own (else <<>>)
    before       \* history: [state, buffer] as the last call found them

engineVars == <<kind, mode, state, buffer, input, ncalls, op, out, prevOut,
                interleaved>>
mineVars == <<miner, base, num_zeros, max_nonce, nonce, pc, computed, report,
              result, verified>>
callVars == <<table, alias, args, before>>
vars == <<engineVars, mineVars, callVars>>

\* Bounds of the model
MaxUpdates == 2      \* update() calls between two resets
MaxHashCalls == 2    \* hash() calls on one SHA256 instance

\* n bytes of test data
Data(n) == [i \in 1..n |-> (7 * n + 13 * i) % 256]

\* the lengths of the data given to update(): empty, within a block, filling
\* a block with the byte before, a whole block, more than a block
ChunkLens == {0, 1, 63, 64, 70}

\* the lengths of the messages given to SHA256.hash
MessageLens == {0, 3, 56, 64}

\* the engine of a BlockHash as update/digest take it
Engine == [state |-> state, buffer |-> buffer]

\* nothing printed
NoReport == [kind |-> "none", nonce |-> -1, hash |-> <<>>, count |-> -1]

\* no search is running
MineIdle ==
    /\ miner = "none" /\ base = <<>> /\ num_zeros = 0 /\ max_nonce = 0
    /\ nonce = 0 /\ pc = "idle" /\ computed = 0
    /\ report = NoReport
    /\ result = "pending" /\ verified = "none"

\* the class BlockHash as its definition leaves it, and no call made
CallIdle ==
    /\ table = MINING_CONSTANTS /\ alias = FALSE /\ args = <<>> /\ before = <<>>

\* no engine is in use
EngineIdle ==
    /\ kind = "none" /\ mode = 0 /\ state = <<>> /\ buffer = <<>>
    /\ input = <<>> /\ ncalls = 0 /\ op = "init" /\ out = <<>>
    /\ prevOut = <<>> /\ interleaved = FALSE

\* BlockHash(mode) or SHA256()
Init ==
    /\ kind \in {"BlockHash", "SHA256"}
    /\ table = MINING_CONSTANTS
    /\ IF kind = "BlockHash"
       THEN /\ mode \in MiningMode
            /\ state = reset_state(table).value
            /\ alias = reset_state(table).alias
            /\ buffer = reset.buffer
       ELSE /\ mode = 0
            /\ state = SHA_H0
            /\ alias = FALSE
            /\ buffer = <<>>
    /\ input = <<>> /\ ncalls = 0 /\ op = "init" /\ out = <<>>
    /\ prevOut = <<>> /\ interleaved = FALSE
    /\ args = <<>> /\ before = <<>>
    /\ MineIdle

\* BlockHash.reset()
Reset ==
    /\ kind = "BlockHash"
    /\ state' = reset_state(table).value
    /\ alias' = reset_state(table).alias
    /\ buffer' = reset.buffer
    /\ input' = <<>> /\ ncalls' = 0 /\ op' = "reset" /\ out' = <<>>
    /\ prevOut' = <<>> /\ interleaved' = FALSE
    /\ before' = Engine
    /\ UNCHANGED <<kind, mode, mineVars, table, args>>

\* BlockHash.update(data)
Update(data) ==
    /\ kind = "BlockHash"
    /\ ncalls < MaxUpdates
    /\ LET e == update(Engine, data, mode)
       IN /\ state' = e.state
          /\ buffer' = e.buffer
    /\ input' = input \o data
    /\ ncalls' = ncalls + 1
    /\ op' = "update" /\ out' = <<>> /\ prevOut' = <<>>
    /\ interleaved' = (interleaved \/ op = "digest")
    /\ table' = IF alias THEN state' ELSE table
    /\ before' = Engine
    /\ UNCHANGED <<kind, mode, mineVars, alias, args>>

\* BlockHash.hexdigest(), which is digest() and its encoding
HexDigest ==
    /\ kind = "BlockHash"
    /\ LET r == hexdigest(Engine, mode)
       IN /\ state' = r.state
          /\ buffer' = r.buffer
          /\ out' = r.result
    /\ op' = "digest"
    /\ prevOut' = IF op = "digest" THEN out ELSE <<>>
    /\ table' = IF alias THEN finalize_mining(Engine, mode).state ELSE table
    /\ alias' = FALSE
    /\ before' = Engine
    /\ UNCHANGED <<kind, mode, input, ncalls, interleaved, mineVars, args>>

\* SHA256.hash(message)
Hash(message) ==
    /\ kind = "SHA256"
    /\ ncalls < MaxHashCalls
    /\ LET r == sha256_hash(state, message)
       IN /\ state' = r.h
          /\ out' = r.result
    /\ input' = message
    /\ ncalls' = ncalls + 1
    /\ op' = "hash" /\ prevOut' = <<>>
    /\ before' = Engine
    /\ UNCHANGED <<kind, mode, buffer, interleaved, mineVars, table, alias, args>>

Next ==
    \/ Reset
    \/ \E n \in ChunkLens : Update(Data(n))
    \/ HexDigest
    \/ \E n \in MessageLens : Hash(Data(n))

Spec == Init /\ [][Next]_vars

----------------------------------------------------------------------------
(* SHA256._pad_message as a function of its message *)

\* Bound of the model: the longest message padded
MaxPadLen == 130

InitPad ==
    /\ kind = "SHA256" /\ mode = 0 /\ state = SHA_H0 /\ buffer = <<>>
    /\ input \in {Data(n) : n \in 0..MaxPadLen}
    /\ ncalls = 0 /\ op = "init" /\ out = <<>>
    /\ prevOut = <<>> /\ interleaved = FALSE
    /\ MineIdle
    /\ CallIdle

\* SHA256()._pad_message(input)
PadMessage ==
    /\ op = "init"
    /\ out' = pad_message(input)
    /\ op' = "pad_message"
    /\ UNCHANGED <<kind, mode, state, buffer, input, ncalls, prevOut, interleaved,
                   mineVars, callVars>>

NextPad == PadMessage

SpecPad == InitPad /\ [][NextPad]_vars

----------------------------------------------------------------------------
(* The nonce searches: miner.mine_sha_256_hash, miner.mine_smhash_hash and *)
(* smhash.mine_block, one pass of the loop per step, and verify_block.     *)

\* Bounds of the model
MaxNonce == 6     \* the largest max_nonce
MaxZeros == 2     \* the largest num_zeros / target_zeros

\* the texts and headers searched on: b"" and b"gfb"
Texts == {<<>>, <<103, 102, 98>>}

Miners == {"mine_sha_256_hash", "mine_smhash_hash", "mine_block"}

\* sha256.hash_string(text), on the encoded text
sha256_hash_string(text) == sha256_hash(SHA_H0, text).result

\* smhash.hash_string(data), on the encoded text, in the default mode
smhash_hash_string(data) == smhash_hash_bytes(data, STANDARD)

\* miner.hash_sha256_with_nonce: f"{text}{nonce}" is hashed
hash_sha256_with_nonce(text, n) ==
    Bind(text \o DecimalText(n), LAMBDA s : sha256_hash_string(s))

\* miner.hash_smhash_with_nonce
hash_smhash_with_nonce(text, n) ==
    Bind(text \o DecimalText(n), LAMBDA s : smhash_hash_string(s))

\* the digest the search m computes for the nonce n; mine_block leaves the
\* mode of hash_with_nonce at its default, MiningMode.FAST
DigestOf(m, b, n) ==
    CASE m = "mine_sha_256_hash" -> hash_sha256_with_nonce(b, n)
      [] m = "mine_smhash_hash" -> hash_smhash_with_nonce(b, n)
      [] m = "mine_block" -> Bind(PyInt(n), LAMBDA pn : hash_with_nonce(b, pn, FAST))

\* smhash.verify_block
verify_block(block_header, n, expected_hash) ==
    Bind(PyInt(n), LAMBDA pn :
        hash_with_nonce(block_header, pn, SECURE) = expected_hash)

\* what a search returns when its loop ends without a match: mine_block
\* the pair (-1, ""), the miner.py functions None after their last print
NotFoundResult(m) == IF m = "mine_block" THEN <<-1, <<>>>> ELSE "None"

\* a call of one of the searches
InitMine ==
    /\ EngineIdle
    /\ CallIdle
    /\ miner \in Miners
    /\ base \in Texts
    /\ num_zeros \in 0..MaxZeros
    /\ max_nonce \in 0..MaxNonce
    /\ nonce = 0 /\ pc = "loop" /\ computed = 0
    /\ report = NoReport
    /\ result = "pending" /\ verified = "none"

\* a range that holds its stop value too
InRange_inclusive(n, stop) == 0 <= n /\ n <= stop

\* n in range(stop)
InRange(n, stop) == 0 <= n /\ n < stop

\* one pass of "for nonce in range(max_nonce)": the digest is computed and
\* tested, and a match ends the search
Try ==
    /\ pc = "loop"
    /\ InRange(nonce, max_nonce)
    /\ computed' = computed + 1
    /\ \E h \in {DigestOf(miner, base, nonce)} :
          IF StartsWith(h, ZeroChars(num_zeros))
          THEN /\ pc' = "found"
               /\ nonce' = nonce
               /\ IF miner = "mine_block"
                  THEN /\ result' = <<nonce, h>>
                       /\ report' = report
                  ELSE /\ result' = "None"
                       /\ report' = [kind |-> "success", nonce |-> nonce,
                                     hash |-> h, count |-> nonce]
          ELSE /\ pc' = "loop"
               /\ nonce' = nonce + 1
               /\ UNCHANGED <<report, result>>
    /\ UNCHANGED <<callVars, engineVars, miner, base, num_zeros, max_nonce, verified>>

\* the range is exhausted: the statement after the loop
Exhausted ==
    /\ pc = "loop"
    /\ ~InRange(nonce, max_nonce)
    /\ pc' = "notfound"
    /\ result' = NotFoundResult(miner)
    /\ report' = IF miner = "mine_block" THEN report
                 ELSE [kind |-> "failure", nonce |-> -1, hash |-> <<>>,
                       count |-> max_nonce]
    /\ UNCHANGED <<callVars, engineVars, miner, base, num_zeros, max_nonce, nonce, computed,
                   verified>>

\* verify_block(header, nonce, hash) on the pair mine_block returned
Verify ==
    /\ miner = "mine_block"
    /\ pc = "found"
    /\ verified' = verify_block(base, result[1], result[2])
    /\ pc' = "verified"
    /\ UNCHANGED <<callVars, engineVars, miner, base, num_zeros, max_nonce, nonce, computed,
                   report, result>>

NextMine == Try \/ Exhausted \/ Verify

\* The searches are loops of one thread with nothing to wait for: a step
\* that can be taken is taken.
SpecMine == InitMine /\ [][NextMine]_vars /\ WF_vars(NextMine)

----------------------------------------------------------------------------
(* BlockHash.hash_with_nonce, one statement per step, beside the engine *)

\* the nonces passed: 0, 5, 2^32, 2^64 - 1, 2^64 and 2^70 + 1
NonceValues == {PyInt(0), PyInt(5), {32}, 0..63, {64}, {0, 70}}

\* the lengths of the data passed to hash_with_nonce
NonceDataLens == {0, 3, 64, 70}

\* hasher = cls(mode), in a call hash_with_nonce(data, nonce, mode)
InitNonce ==
    /\ kind = "hash_with_nonce"
    /\ mode \in MiningMode
    /\ table = MINING_CONSTANTS
    /\ state = reset_state(table).value
    /\ alias = reset_state(table).alias
    /\ buffer = reset.buffer
    /\ args \in {[data |-> Data(n), nonce |-> v] : n \in NonceDataLens, v \in NonceValues}
    /\ input = <<>> /\ ncalls = 0 /\ op = "init" /\ out = <<>>
    /\ prevOut = <<>> /\ interleaved = FALSE
    /\ before = <<>>
    /\ MineIdle

\* hasher.update(data)
NonceUpdate ==
    /\ kind = "hash_with_nonce"
    /\ op = "init"
    /\ LET e == update(Engine, args.data, mode)
       IN /\ state' = e.state
          /\ buffer' = e.buffer
    /\ input' = args.data
    /\ op' = "nonce_update"
    /\ table' = IF alias THEN state' ELSE table
    /\ before' = Engine
    /\ UNCHANGED <<kind, mode, ncalls, out, prevOut, interleaved, mineVars, alias, args>>

\* hasher.state = hasher._fast_nonce_mix(hasher.state, nonce): the list
\* hasher.state names is changed in place and assigned back
NonceMix ==
    /\ kind = "hash_with_nonce"
    /\ op = "nonce_update"
    /\ state' = fast_nonce_mix(state, args.nonce)
    /\ op' = "nonce_mix"
    /\ table' = IF alias THEN state' ELSE table
    /\ before' = Engine
    /\ UNCHANGED <<kind, mode, buffer, input, ncalls, out, prevOut, interleaved, mineVars,
                   alias, args>>

\* return hasher.hexdigest()
NonceHexDigest ==
    /\ kind = "hash_with_nonce"
    /\ op = "nonce_mix"
    /\ LET r == hexdigest(Engine, mode)
       IN /\ state' = r.state
          /\ buffer' = r.buffer
          /\ out' = r.result
    /\ op' = "nonce_digest"
    /\ table' = IF alias THEN finalize_mining(Engine, mode).state ELSE table
    /\ alias' = FALSE
    /\ before' = Engine
    /\ UNCHANGED <<kind, mode, input, ncalls, prevOut, interleaved, mineVars, args>>

InitCalls == Init \/ InitNonce

NextCalls ==
    \/ Next
    \/ NonceUpdate
    \/ NonceMix
    \/ NonceHexDigest

\* an engine used through its methods, or a call of hash_with_nonce
SpecCalls == InitCalls /\ [][NextCalls]_vars

----------------------------------------------------------------------------
(* smhash.hash_bytes as a function of its data and mode *)

\* Bound of the model: the longest data hashed
MaxBytesLen == 70

\* a call hash_bytes(data, mode)
InitBytes ==
    /\ kind = "hash_bytes"
    /\ mode \in MiningMode
    /\ args \in {[data |-> Data(n)] : n \in 0..MaxBytesLen}
    /\ state = <<>> /\ buffer = <<>>
    /\ input = <<>> /\ ncalls = 0 /\ op = "init" /\ out = <<>>
    /\ prevOut = <<>> /\ interleaved = FALSE
    /\ table = MINING_CONSTANTS /\ alias = FALSE /\ before = <<>>
    /\ MineIdle

\* hasher = BlockHash(mode); hasher.update(data); return hasher.hexdigest():
\* state and buffer are those of hasher when the function returns
HashBytes ==
    /\ kind = "hash_bytes"
    /\ op = "init"
    /\ \E made \in {reset_state(table)} :
       \E fed \in {update([state |-> made.value, buffer |-> reset.buffer], args.data, mode)} :
       \E r \in {hexdigest(fed, mode)} :
          /\ state' = r.state
          /\ buffer' = r.buffer
          /\ out' = r.result
          /\ table' = IF made.alias THEN finalize_mining(fed, mode).state ELSE table
    /\ alias' = FALSE
    /\ input' = args.data
    /\ op' = "hash_bytes"
    /\ before' = Engine
    /\ UNCHANGED <<kind, mode, ncalls, prevOut, interleaved, mineVars, args>>

NextBytes == HashBytes

SpecBytes == InitBytes /\ [][NextBytes]_vars

----------------------------------------------------------------------------
(* BlockHash._process_mining_block as a function of the state and the block *)

\* the blocks processed
Blocks == {Data(64), [j \in 1..64 |-> (5 + 29 * j) % 256]}

\* the states the block is processed in: that of a new engine, and that of
\* an engine of the mode md that has compressed a block
BlockStates(md) == {reset.state, update(reset, Data(64), md).state}

\* what is done to a block to get a second one: the words i and i + 4
\* swapped, or the 64-bit value delta XORed into both
BlockChanges ==
    {[change |-> "swap", i |-> i, delta |-> {}] : i \in 0..3} \cup
    {[change |-> "xor", i |-> i, delta |-> d] : i \in 0..3, d \in {{0}, 0..63, {7, 40}}}

\* an engine about to process a block
InitBlock ==
    /\ kind = "process_mining_block"
    /\ mode \in MiningMode
    /\ state \in BlockStates(mode)
    /\ buffer = <<>>
    /\ args \in {[block |-> b, change |-> c.change, i |-> c.i, delta |-> c.delta] :
                   b \in Blocks, c \in BlockChanges}
    /\ input = <<>> /\ ncalls = 0 /\ op = "init" /\ out = <<>>
    /\ prevOut = <<>> /\ interleaved = FALSE
    /\ table = MINING_CONSTANTS /\ alias = FALSE /\ before = <<>>
    /\ MineIdle

\* self._process_mining_block(block)
ProcessBlock ==
    /\ kind = "process_mining_block"
    /\ op = "init"
    /\ state' = process_mining_block(state, args.block, mode)
    /\ op' = "process_mining_block"
    /\ table' = IF alias THEN state' ELSE table
    /\ before' = Engine
    /\ UNCHANGED <<kind, mode, buffer, input, ncalls, out, prevOut, interleaved, mineVars,
                   alias, args>>

NextBlock == ProcessBlock

SpecBlock == InitBlock /\ [][NextBlock]_vars

----------------------------------------------------------------------------
(* BlockHash.hash_block_header *)

\* x.to_bytes(n, 'little'): the format '<I' of struct.pack for n = 4
ToBytesLittle(x, n) == [m \in 1..n |-> BitsByte(x, 8 * (m - 1))]

\* the format '32s' of struct.pack: 32 bytes, cut or filled with zeros
Pack32s(bs) == [j \in 1..32 |-> IF j <= Len(bs) THEN bs[j] ELSE 0]

\* struct.pack('<I32s32sIII', ...): the bytes packed, or the struct.error
\* raised for an integer that is not in [0, 2^32)
struct_pack_header(version, prev_hash, merkle_root, timestamp, bits, hnonce) ==
    IF \E v \in {version, timestamp, bits, hnonce} : ~(v \subseteq MASK32)
    THEN [raised |-> "struct.error", value |-> <<>>]
    ELSE [raised |-> "none",
          value |-> ToBytesLittle(version, 4) \o Pack32s(prev_hash) \o
                    Pack32s(merkle_root) \o ToBytesLittle(timestamp, 4) \o
                    ToBytesLittle(bits, 4) \o ToBytesLittle(hnonce, 4)]

\* the attributes an instance of BlockHash has: those of the class body and
\* the two __init__ sets (hash_string and hash_bytes are functions of the
\* module, not of the class)
BlockHashAttributes ==
    {"VERSION", "MINING_CONSTANTS", "NONCE_MIX", "__init__", "_rotright", "_rotleft",
     "_get_round_count", "reset", "_mix_mining", "_fast_nonce_mix",
     "hash_block_header", "update", "_process_mining_block", "_finalize_mining",
     "digest", "hexdigest", "hash_with_nonce", "mode", "state", "buffer"}

\* self.<name>: "none" if the attribute is found, else the exception raised
getattr_raises(name) == IF name \in BlockHashAttributes THEN "none" ELSE "AttributeError"

\* BlockHash.hash_block_header: the exception it raises and the value it
\* returns.  The header is packed, and then self.hash_bytes is looked up.
hash_block_header(version, prev_hash, merkle_root, timestamp, bits, hnonce) ==
    Bind(struct_pack_header(version, prev_hash, merkle_root, timestamp, bits, hnonce),
         LAMBDA header :
            IF header.raised # "none" THEN header
            ELSE [raised |-> getattr_raises("hash_bytes"), value |-> <<>>])

\* Bound of the model: the largest nonce of a header
MaxHeaderNonce == 7

\* the 32-byte hashes of the headers: 0x11 and 0x22 repeated
HeaderHashes == [prev_hash |-> [j \in 1..32 |-> 17], merkle_root |-> [j \in 1..32 |-> 34]]

\* a BlockHash, and the arguments of a call of its hash_block_header:
\* integers as bit sets, here 1 and 2, 0, 1700000000 and 2^32 - 1,
\* 0x1d00ffff, and the nonces from 0
InitHeader ==
    /\ kind = "hash_block_header"
    /\ mode \in MiningMode
    /\ state = reset.state
    /\ buffer = reset.buffer
    /\ args \in {[version |-> PyInt(v), prev_hash |-> HeaderHashes.prev_hash,
                  merkle_root |-> HeaderHashes.merkle_root, timestamp |-> t,
                  bits |-> PyInt(486604799), nonce |-> PyInt(n)] :
                   v \in {1, 2}, t \in {PyInt(0), PyInt(1700000000), 0..31},
                   n \in 0..MaxHeaderNonce}
    /\ input = <<>> /\ ncalls = 0 /\ op = "init" /\ out = <<>>
    /\ prevOut = <<>> /\ interleaved = FALSE
    /\ table = MINING_CONSTANTS /\ alias = FALSE /\ before = <<>>
    /\ MineIdle

\* self.hash_block_header(version, prev_hash, merkle_root, timestamp, bits,
\* nonce): out is the exception raised and the value returned
HashBlockHeader ==
    /\ kind = "hash_block_header"
    /\ op = "init"
    /\ out' = hash_block_header(args.version, args.prev_hash, args.merkle_root,
                                args.timestamp, args.bits, args.nonce)
    /\ op' = "hash_block_header"
    /\ before' = Engine
    /\ UNCHANGED <<kind, mode, state, buffer, input, ncalls, prevOut, interleaved,
                   mineVars, table, alias, args>>

NextHeader == HashBlockHeader

SpecHeader == InitHeader /\ [][NextHeader]_vars
----------------------------------------------------------------------------
(* The module-level hash_string and hash_bytes of smhash.py and sha256.py, *)
(* called any number of times in one process                               *)

\* Bound of the model: the calls made in one process
MaxModuleCalls == 3

ModuleFunctions ==
    {"smhash.hash_string", "smhash.hash_bytes", "sha256.hash_string", "sha256.hash_bytes"}

\* the texts passed to hash_string, as code points: "", a text whose
\* characters are encoded to 1, 2, 3 and 4 bytes, and a text that holds a
\* lone surrogate
ModuleTexts == {<<>>, <<103, 233, 8364, 128512>>, <<97, 55296, 98>>}

\* the bytes passed to hash_bytes: none, within a block, more than a block
ModuleBytes == {Data(0), Data(3), Data(70)}

\* the code points str.encode('utf-8') refuses: the surrogates
Surrogates == 55296..57343

\* the UTF-8 encoding of one code point; raised is the exception raised,
\* "none" if the bytes in value are returned
Utf8(cp) ==
    IF cp \in Surrogates THEN [raised |-> "UnicodeEncodeError", value |-> <<>>]
    ELSE [raised |-> "none",
          value |->
            IF cp < 128 THEN <<cp>>
            ELSE IF cp < 2048 THEN <<192 + (cp \div 64), 128 + (cp % 64)>>
            ELSE IF cp < 65536
                 THEN <<224 + (cp \div 4096), 128 + ((cp \div 64) % 64),
                        128 + (cp % 64)>>
                 ELSE <<240 + (cp \div 262144), 128 + ((cp \div 4096) % 64),
                        128 + ((cp \div 64) % 64), 128 + (cp % 64)>>]

\* text.encode('utf-8'): no bytes are returned if a character is refused
RECURSIVE encode_utf8(_)
encode_utf8(text) ==
    IF text = <<>> THEN [raised |-> "none", value |-> <<>>]
    ELSE LET first == Utf8(Head(text))
             rest == encode_utf8(Tail(text))
         IN IF first.raised # "none" THEN first
            ELSE IF rest.raised # "none" THEN rest
            ELSE [raised |-> "none", value |-> first.value \o rest.value]

\* bytes are taken as they are
as_bytes(data) == [raised |-> "none", value |-> data]

\* the process before its first call: the class BlockHash as its definition
\* leaves it; mode is the mode the calls of smhash pass
InitModule ==
    /\ kind \in ModuleFunctions
    /\ mode \in (IF kind \in {"smhash.hash_string", "smhash.hash_bytes"}
                 THEN MiningMode ELSE {0})
    /\ state = <<>> /\ buffer = <<>>
    /\ input = <<>> /\ ncalls = 0 /\ op = "init" /\ out = <<>>
    /\ prevOut = <<>> /\ interleaved = FALSE
    /\ CallIdle
    /\ MineIdle

\* history of a call: the data and the outcome of the call before are added
\* to prevOut, here the list of the calls made before the last one; input is
\* the bytes the engine was given
Called(data, bytes) ==
    /\ args' = [data |-> data]
    /\ input' = bytes
    /\ ncalls' = ncalls + 1
    /\ op' = "call"
    /\ prevOut' = IF ncalls = 0 THEN <<>>
                  ELSE Append(prevOut, [data |-> args.data, result |-> out])
    /\ before' = Engine
    /\ UNCHANGED <<kind, mode, interleaved, mineVars>>

\* hasher = BlockHash(mode); hasher.update(data); return hasher.hexdigest():
\* enc is the outcome of update's data.encode('utf-8') for a str, which
\* raises before the buffer is touched. state and buffer are those of hasher
\* when the function returns or raises, out the exception raised and the
\* value returned
BlockHashCall(data, enc) ==
    /\ ncalls < MaxModuleCalls
    /\ \E made \in {reset_state(table)} :
       IF enc.raised # "none"
       THEN /\ state' = made.value
            /\ buffer' = reset.buffer
            /\ out' = [raised |-> enc.raised, value |-> <<>>]
            /\ alias' = made.alias
            /\ table' = table
       ELSE \E fed \in {update([state |-> made.value, buffer |-> reset.buffer],
                               enc.value, mode)} :
            \E r \in {hexdigest(fed, mode)} :
               /\ state' = r.state
               /\ buffer' = r.buffer
               /\ out' = [raised |-> "none", value |-> r.result]
               /\ alias' = FALSE
               /\ table' = IF made.alias THEN finalize_mining(fed, mode).state
                           ELSE table
    /\ Called(data, enc.value)

\* sha256 = SHA256(); return sha256.hash(bytes): enc is the outcome of
\* text.encode('utf-8'), evaluated before hash is called. state is sha256.h
\* when the function returns or raises
SHA256Call(data, enc) ==
    /\ ncalls < MaxModuleCalls
    /\ \E made \in {SHA_H0} :
       IF enc.raised # "none"
       THEN /\ state' = made
            /\ out' = [raised |-> enc.raised, value |-> <<>>]
       ELSE \E r \in {sha256_hash(made, enc.value)} :
               /\ state' = r.h
               /\ out' = [raised |-> "none", value |-> r.result]
    /\ UNCHANGED <<buffer, table, alias>>
    /\ Called(data, enc.value)

\* smhash.hash_string(data, mode)
SmhashHashString(data) ==
    /\ kind = "smhash.hash_string"
    /\ BlockHashCall(data, encode_utf8(data))

\* smhash.hash_bytes(data, mode)
SmhashHashBytes(data) ==
    /\ kind = "smhash.hash_bytes"
    /\ BlockHashCall(data, as_bytes(data))

\* sha256.hash_string(text)
Sha256HashString(text) ==
    /\ kind = "sha256.hash_string"
    /\ SHA256Call(text, encode_utf8(text))

\* sha256.hash_bytes(byte_data)
Sha256HashBytes(byte_data) ==
    /\ kind = "sha256.hash_bytes"
    /\ SHA256Call(byte_data, as_bytes(byte_data))

\* a SHA256 instance, or a process calling one module-level function
InitHashes == (Init /\ kind = "SHA256") \/ InitModule

NextHashes ==
    \/ \E n \in MessageLens : Hash(Data(n))
    \/ \E data \in ModuleTexts : SmhashHashString(data)
    \/ \E data \in ModuleBytes : SmhashHashBytes(data)
    \/ \E text \in ModuleTexts : Sha256HashString(text)
    \/ \E byte_data \in ModuleBytes : Sha256HashBytes(byte_data)

SpecHashes == InitHashes /\ [][NextHashes]_vars


----------------------------------------------------------------------------
(* Properties of the engines *)

HexDigits == {HexChars[i] : i \in 1..16}

\* C1: a call to digest() leaves the four state words and the pending
\* buffer of a BlockHash exactly as they were immediately before the call,
\* in every state reset(), update() and digest() calls can reach.
DigestLeavesEngine ==
    [][op' = "digest" => (state' = state /\ buffer' = buffer)]_vars

\* a digest taken after at least one compressed block, with bytes pending
DigestLeavesEngineWitness ==
    kind = "BlockHash" /\ op = "digest" /\ Len(buffer) > 0 /\ Len(input) > 64

\* C2: digest() calls inserted among update() calls never change what a
\* later digest() returns: every digest equals the digest a fresh engine of
\* the same mode gives for the concatenation of all the data fed since the
\* reset, and a digest directly after a digest returns the same value.
DigestIndependentOfDigests ==
    (kind = "BlockHash" /\ op = "digest") =>
        /\ out = smhash_hash_bytes(input, mode)
        /\ (prevOut # <<>> => out = prevOut)

\* update(a); digest(); update(b); digest(); digest() across a block boundary
DigestIndependentOfDigestsWitness ==
    /\ kind = "BlockHash" /\ op = "digest" /\ interleaved /\ prevOut # <<>>
    /\ ncalls >= 2 /\ Len(input) > 64

\* C7: a digest depends on the input alone, never on what was hashed before.
\* SHA256.hash(x) on an instance that has hashed other messages returns what
\* a fresh instance returns for x.  A call of the module-level hash_string or
\* hash_bytes, of smhash.py in each mode and of sha256.py, ends for x as
\* every earlier call in the process ended for x, whatever was hashed in
\* between: it returns the same string, and that is the digest an engine
\* just constructed gives for the bytes of x; it returns no string only for
\* a text that cannot be encoded, and then every call with that text raises.
HashIndependentOfHistory ==
    /\ (kind = "SHA256" /\ op = "hash") =>
           out = sha256_hash(SHA_H0, input).result
    /\ (kind \in ModuleFunctions /\ op = "call") =>
           /\ \A i \in 1..Len(prevOut) :
                 prevOut[i].data = args.data => prevOut[i].result = out
           /\ out.raised = "none" =>
                 out.value = IF kind \in {"smhash.hash_string", "smhash.hash_bytes"}
                             THEN hexdigest(update(reset, input, mode), mode).result
                             ELSE sha256_hash(SHA_H0, input).result
           /\ out.raised # "none" =>
                 /\ kind \in {"smhash.hash_string", "sha256.hash_string"}
                 /\ \E i \in 1..Len(args.data) : args.data[i] \in Surrogates

\* a third call of smhash.hash_string that returns a digest, with the text of
\* the first call after a call with another text
HashIndependentOfHistoryWitness ==
    /\ kind = "smhash.hash_string" /\ op = "call" /\ ncalls = 3
    /\ out.raised = "none"
    /\ prevOut[1].data = args.data /\ prevOut[2].data # args.data
    /\ Len(input) > Len(args.data)

\* C8: the digest either variant returns (SHA256.hash, BlockHash.hexdigest
\* in each mode) is a string of exactly 64 lowercase hexadecimal
\* characters, for input of every length including 0.
DigestIs64Hex ==
    op \in {"digest", "hash"} =>
        /\ Len(out) = 64
        /\ \A i \in 1..Len(out) : out[i] \in HexDigits

\* a digest of the empty input
DigestIs64HexWitness ==
    op \in {"digest", "hash"} /\ input = <<>> /\ Len(out) = 64

\* the string the specification gives for the empty message (63 characters)
EmptyVectorStated ==
    << "e", "3", "b", "0", "c", "4", "4", "2", "9", "8", "f", "c", "1", "c", "1", "4",
       "9", "a", "f", "b", "f", "4", "c", "8", "9", "9", "6", "f", "b", "9", "2", "4",
       "2", "7", "a", "e", "4", "1", "e", "4", "6", "4", "9", "b", "9", "3", "4", "c",
       "a", "4", "9", "5", "9", "9", "1", "b", "7", "8", "5", "2", "b", "8", "5" >>

\* SHA-256 of the empty message (64 characters)
EmptyVector ==
    << "e", "3", "b", "0", "c", "4", "4", "2", "9", "8", "f", "c", "1", "c", "1", "4",
       "9", "a", "f", "b", "f", "4", "c", "8", "9", "9", "6", "f", "b", "9", "2", "4",
       "2", "7", "a", "e", "4", "1", "e", "4", "6", "4", "9", "b", "9", "3", "4", "c",
       "a", "4", "9", "5", "9", "9", "1", "b", "7", "8", "5", "2", "b", "8", "5", "5" >>

\* C9 as stated: SHA256.hash(b"") equals the 63-character string
\* e3b0c44298fc1c149afbf4c8996fb92427ae41e4649b934ca495991b7852b85.
EmptyDigestAsStated ==
    (kind = "SHA256" /\ op = "hash" /\ input = <<>>) => out = EmptyVectorStated

\* C9, amended: SHA256.hash(b"") equals the 64-character string
\* e3b0c44298fc1c149afbf4c8996fb92427ae41e4649b934ca495991b7852b855
\* (the stated string with its last character restored).
EmptyDigest ==
    (kind = "SHA256" /\ op = "hash" /\ input = <<>>) =>
        /\ out = EmptyVector
        /\ SubSeq(out, 1, 63) = EmptyVectorStated

\* hash(b"") has been called
EmptyDigestWitness ==
    kind = "SHA256" /\ op = "hash" /\ input = <<>>

----------------------------------------------------------------------------
(* The searches *)

\* h starts with k characters "0"
LeadingZeros(h, k) == Len(h) >= k /\ \A i \in 1..k : h[i] = "0"

\* the digest of the nonce n has the zeros the running search asks for
Qualifies(n) == LeadingZeros(DigestOf(miner, base, n), num_zeros)

\* the nonce and the digest a successful search gave out: mine_block in the
\* pair it returns, the miner.py searches in what they print
FoundNonce == IF miner = "mine_block" THEN result[1] ELSE report.nonce
FoundHash == IF miner = "mine_block" THEN result[2] ELSE report.hash

\* C3: a search gives out the nonce n only if n is in [0, max_nonce), the
\* digest given out is the digest of n and starts with num_zeros "0"
\* characters, and no smaller nonce has such a digest; a finished search is
\* not-found exactly if no nonce of [0, max_nonce) has such a digest, and
\* with num_zeros = 0 and max_nonce >= 1 it gives out the nonce 0.
MiningMinimal ==
    /\ pc \in {"found", "verified"} =>
          /\ FoundNonce \in 0..(max_nonce - 1)
          /\ FoundHash = DigestOf(miner, base, FoundNonce)
          /\ LeadingZeros(FoundHash, num_zeros)
          /\ \A n \in 0..(FoundNonce - 1) : ~Qualifies(n)
    /\ pc # "loop" =>
          (pc = "notfound" <=> \A n \in 0..(max_nonce - 1) : ~Qualifies(n))
    /\ (pc # "loop" /\ num_zeros = 0 /\ max_nonce >= 1) =>
          (pc # "notfound" /\ FoundNonce = 0)

\* mine_smhash_hash("gfb", 1, 6): the nonces 2 and 5 both have a digest that
\* starts with "0", and 2 is given out
MiningMinimalWitness ==
    /\ pc = "found" /\ miner = "mine_smhash_hash"
    /\ base = <<103, 102, 98>> /\ num_zeros = 1 /\ max_nonce = 6
    /\ report.nonce = 2
    /\ Qualifies(5)

\* C4, as stated: a miner.py search that finds the nonce n reports n + 1
\* hashes calculated. (The code prints the nonce itself as the number of
\* hashes calculated, after computing nonce + 1 digests.)
AttemptCountAsStated ==
    (pc = "found" /\ miner # "mine_block") => report.count = report.nonce + 1

\* C5: every search ends; it computes at most max_nonce digests and none
\* once it has ended, and a search that ends without a match has computed
\* max_nonce digests and returns normally: mine_block the pair (-1, ""), the
\* miner.py searches None after reporting the failure.
MiningTerminates ==
    /\ <>(pc # "loop")
    /\ [](computed <= max_nonce)
    /\ [][pc # "loop" => computed' = computed]_vars
    /\ [](pc = "notfound" =>
            /\ computed = max_nonce
            /\ IF miner = "mine_block"
               THEN result = <<-1, <<>>>>
               ELSE result = "None" /\ report.kind = "failure"
                    /\ report.count = max_nonce)

\* a search of the whole range that finds nothing
MiningTerminatesWitness ==
    /\ pc = "notfound" /\ max_nonce = MaxNonce /\ computed = MaxNonce
    /\ num_zeros = MaxZeros /\ miner = "mine_block"

\* C6, as stated: verify_block accepts every pair mine_block returns.
\* (mine_block hashes in MiningMode.FAST, the default of hash_with_nonce,
\* and verify_block in MiningMode.SECURE.)
RoundTripAsStated == pc = "verified" => verified = TRUE

----------------------------------------------------------------------------
(* Padding *)

\* byte j of 1..8 of the big-endian 64-bit form of 8 * L, for L < 2^21
LengthByte(L, j) == IF j <= 5 THEN 0 ELSE ((8 * L) \div (256 ^ (8 - j))) % 256

\* C10: the padded message has a length that is a positive multiple of 64,
\* starts with the message, continues with the byte 0x80 and then zero
\* bytes up to its last 8 bytes, which are 8 * L big-endian.
PaddingShape ==
    op = "pad_message" =>
        /\ Len(out) > 0
        /\ Len(out) % 64 = 0
        /\ Len(out) >= Len(input) + 9
        /\ SubSeq(out, 1, Len(input)) = input
        /\ out[Len(input) + 1] = 128
        /\ \A i \in (Len(input) + 2)..(Len(out) - 8) : out[i] = 0
        /\ \A j \in 1..8 : out[Len(out) - 8 + j] = LengthByte(Len(input), j)

\* a message of 56 bytes, whose padding needs a second block
PaddingShapeWitness ==
    /\ op = "pad_message" /\ Len(input) = 56 /\ Len(out) = 128
    /\ out[127] = 1 /\ out[128] = 192

----------------------------------------------------------------------------
(* The class table, the buffer and the word widths *)

\* C12: reset() leaves a BlockHash, whatever was done with it before, as
\* its construction leaves it: the state words are the initial constants and
\* the buffer is empty; and the list the class
\* attribute MINING_CONSTANTS names holds the same four constants in every
\* state, also after the in-place nonce mix of hash_with_nonce.
ResetRestoresConstants ==
    /\ table = MINING_CONSTANTS
    /\ (kind = "BlockHash" /\ op = "reset") =>
          /\ state = MINING_CONSTANTS
          /\ buffer = <<>>
          /\ Engine = reset

\* a reset() of an engine that had compressed a block and held pending bytes
ResetRestoresConstantsWitness ==
    /\ kind = "BlockHash" /\ op = "reset"
    /\ before # <<>> /\ before.state # MINING_CONSTANTS /\ Len(before.buffer) > 0

\* C14: between the calls of a BlockHash the buffer holds fewer than 64
\* bytes, and they are the last Len(input) mod 64 bytes of all the input
\* fed since the reset.
BufferIsTail ==
    kind = "BlockHash" =>
        /\ Len(buffer) < 64
        /\ Len(buffer) = Len(input) % 64
        /\ buffer = SubSeq(input, Len(input) - (Len(input) % 64) + 1, Len(input))

\* update() of 63 and of 70 bytes: two blocks compressed, 5 bytes pending
BufferIsTailWitness ==
    /\ kind = "BlockHash" /\ op = "update" /\ ncalls = 2
    /\ Len(input) = 133 /\ Len(buffer) = 5

\* the state of a SHA256 after the first k blocks of the padded message
ShaAfterBlocks(message, k) ==
    Bind(pad_message(message), LAMBDA padded :
    For(LAMBDA x, b : Bind(SubSeq(padded, 64 * b + 1, 64 * b + 64), LAMBDA block :
                           process_block(x, SHA_K, block)),
        SHA_H0, 0, k))

\* every word of st is in [0, 2^width), where mask = 0..(width - 1)
WordsWithin(st, mask) == \A i \in 1..Len(st) : st[i] \subseteq mask

\* C15: the four state words of a BlockHash are in [0, 2^64) after
\* construction, reset(), every update(), the nonce mix of hash_with_nonce
\* (for nonces up to and beyond 2^64) and the finalization of a digest; the
\* eight state words of a SHA256 are in [0, 2^32) after every hash() call
\* and after every block compressed in it.
WordsInRange ==
    /\ kind \in {"BlockHash", "hash_with_nonce"} =>
          /\ WordsWithin(state, MASK64)
          /\ Bind(finalize_mining(Engine, mode).state,
                  LAMBDA final : WordsWithin(final, MASK64))
    /\ kind = "SHA256" =>
          /\ WordsWithin(state, MASK32)
          /\ op = "hash" =>
                \A k \in 1..((Len(input) + 9 + 63) \div 64) :
                    Bind(ShaAfterBlocks(input, k), LAMBDA h : WordsWithin(h, MASK32))

\* the nonce 2^64 mixed into the state after a block was compressed
WordsInRangeWitness ==
    /\ kind = "hash_with_nonce" /\ op = "nonce_mix"
    /\ args.nonce = {64} /\ Len(args.data) = 70
    /\ state # before.state

\* the engine a BlockHash of the given mode is in after all the full
\* 64-byte blocks of data went through _process_mining_block in order
WholeIngest(data, md) ==
    [state |-> For(LAMBDA s, b : Bind(SubSeq(data, 64 * b + 1, 64 * b + 64), LAMBDA block :
                                      process_mining_block(s, block, md)),
                   MINING_CONSTANTS, 0, Len(data) \div 64),
     buffer |-> SubSeq(data, 64 * (Len(data) \div 64) + 1, Len(data))]

\* C16: however the input was split over update() calls, the engine holds
\* the state words and the buffer one update() with the whole input gives a
\* fresh engine, which are the blocks of the input compressed in order and
\* the rest buffered; and a digest taken then is the digest of the whole.
ChunkingIndependent ==
    (kind = "BlockHash" /\ op \in {"update", "digest"}) =>
        /\ Engine = update(reset, input, mode)
        /\ Engine = WholeIngest(input, mode)
        /\ op = "digest" => out = hexdigest(update(reset, input, mode), mode).result

\* 70 bytes and then 64 bytes: each update() compresses one block, and the
\* second block straddles the two pieces
ChunkingIndependentWitness ==
    /\ kind = "BlockHash" /\ op = "update" /\ ncalls = 2
    /\ Len(input) = 134 /\ Len(before.buffer) = 6 /\ Len(buffer) = 6

----------------------------------------------------------------------------
(* The finalization of a BlockHash digest *)

\* the two cross passes that end a finalization: mix(s0, s2), mix(s1, s3)
CrossPasses(st) ==
    Bind(mix_mining(st[1], st[3]), LAMBDA c02 :
    Bind(mix_mining(st[2], st[4]), LAMBDA c13 :
    <<c02[1], c13[1], c02[2], c13[2]>>))

\* one ingestion and mixing pass over the buffer of eng padded with zeros
PaddedPass(eng, md) ==
    Bind(eng.buffer \o Zeros(64 - Len(eng.buffer)), LAMBDA padded :
    process_mining_block(eng.state, padded, md))

\* the 64 hexadecimal digits of the four state words st
HexOfState(st) == BytesHex(JoinState(st))

\* C13, as stated: the digest is the two cross passes after a pass over the
\* zero-padded pending buffer, which is made also when that buffer is empty.
FinalizationAsStated ==
    op = "hash_bytes" =>
        Bind(WholeIngest(args.data, mode), LAMBDA e :
             out = HexOfState(CrossPasses(PaddedPass(e, mode))))

\* C13, amended: the pass over the zero-padded pending buffer is made only
\* when that buffer is not empty; the digest of the empty message and of a
\* message whose length is a multiple of 64 is the two cross passes applied
\* to the state the full blocks left, with no pass over a zero block.
FinalizationSkipsEmptyBuffer ==
    op = "hash_bytes" =>
        Bind(WholeIngest(args.data, mode), LAMBDA e :
             /\ Len(e.buffer) > 0 => out = HexOfState(CrossPasses(PaddedPass(e, mode)))
             /\ Len(e.buffer) = 0 =>
                   /\ out = HexOfState(CrossPasses(e.state))
                   /\ out # HexOfState(CrossPasses(PaddedPass(e, mode))))

\* the digest of a message of exactly one block
FinalizationSkipsEmptyBufferWitness ==
    op = "hash_bytes" /\ Len(args.data) = 64 /\ buffer = <<>> /\ Len(out) = 64

\* C17: a message whose length is not a multiple of 64 and the same message
\* with one zero byte appended have the same digest, in every mode.
ZeroByteAppended ==
    (op = "hash_bytes" /\ Len(args.data) % 64 # 0) =>
        out = smhash_hash_bytes(args.data \o <<0>>, mode)

\* a message of 63 bytes: the appended byte completes the block
ZeroByteAppendedWitness ==
    op = "hash_bytes" /\ Len(args.data) = 63 /\ Len(buffer) = 63

----------------------------------------------------------------------------
(* Block ingestion *)

\* the block with its 8-byte words i and i + 4 swapped (i in 0..3)
SwapWords(block, i) ==
    [j \in 1..64 |-> IF (j - 1) \div 8 = i THEN block[j + 32]
                     ELSE IF (j - 1) \div 8 = i + 4 THEN block[j - 32]
                     ELSE block[j]]

\* the bytes a and b XORed
XorByte(a, b) == BitsByte(Xor(ByteBits(a, 0), ByteBits(b, 0)), 0)

\* the block with the 64-bit value d XORed into its words i and i + 4
XorWords(block, i, d) ==
    [j \in 1..64 |-> IF (j - 1) \div 8 \in {i, i + 4}
                     THEN XorByte(block[j], ToBytesBig(d, 8)[((j - 1) % 8) + 1])
                     ELSE block[j]]

\* the second block of the call a
ChangedBlock(a) ==
    IF a.change = "swap" THEN SwapWords(a.block, a.i)
    ELSE XorWords(a.block, a.i, a.delta)

\* C18: a block, and the block that differs from it by the words i and
\* i + 4 swapped or by one value XORed into both, take an engine from the
\* same state to the same state, in every mode, and so to the same digest.
SameXorSameState ==
    op = "process_mining_block" =>
        Bind(ChangedBlock(args), LAMBDA other :
             /\ other # args.block
             /\ Bind(process_mining_block(before.state, other, mode), LAMBDA st :
                     /\ state = st
                     /\ hexdigest(Engine, mode).result =
                            hexdigest([state |-> st, buffer |-> before.buffer], mode).result))

\* a value XORed into the words 3 and 7 of a block processed by an engine
\* that had compressed a block before
SameXorSameStateWitness ==
    /\ op = "process_mining_block" /\ args.change = "xor" /\ args.i = 3
    /\ args.delta = {7, 40}
    /\ before.state # MINING_CONSTANTS /\ state # before.state

----------------------------------------------------------------------------
(* Block headers *)

\* the 80-byte header of the specification: little-endian
\* version(4) | prevHash(32) | merkleRoot(32) | timestamp(4) | bits(4) | nonce(4)
Header80(a) ==
    [m \in 1..4 |-> BitsByte(a.version, 8 * (m - 1))] \o a.prev_hash \o a.merkle_root \o
    [m \in 1..4 |-> BitsByte(a.timestamp, 8 * (m - 1))] \o
    [m \in 1..4 |-> BitsByte(a.bits, 8 * (m - 1))] \o
    [m \in 1..4 |-> BitsByte(a.nonce, 8 * (m - 1))]

\* C11, as stated: hash_block_header raises nothing and returns the 64
\* hexadecimal characters of the FastMix digest, in the mode of the engine,
\* of the 80-byte header. (The code packs the header and then looks up
\* self.hash_bytes, which no BlockHash has: it raises AttributeError.)
HeaderDigestAsStated ==
    op = "hash_block_header" =>
        /\ out.raised = "none"
        /\ Len(out.value) = 64
        /\ out.value = smhash_hash_bytes(Header80(args), mode)
====
